---- MODULE Spec2Model ----
(***************************************************************************)
(* Model of Secure_C_Programming_Guide/IntegerOverflow/                    *)
(* integer_overflow_good.c: main() pre-checks UINT8_MAX - a < b before     *)
(* adding two uint8_t operands, prints either "Overflow detected!" or      *)
(* "Sum: <total>", and returns 0.                                          *)
(*                                                                         *)
(* The source fixes the operands to a = 200, b = 100 (InitA, InitB).  The  *)
(* properties of the program are stated for every pair of uint8_t          *)
(* operands, so Init draws a and b from the whole uint8_t range; the run   *)
(* of the program as written is the behaviour with a = InitA, b = InitB.   *)
(*                                                                         *)
(* Text is modelled as a sequence of one-character strings, standard       *)
(* output as the sequence of characters written so far.  A local that has  *)
(* not been assigned (or is not yet in scope) is None == <<>>, an assigned *)
(* one is Some(v) == <<v>>.                                                *)
(***************************************************************************)
EXTENDS Integers, Sequences, FiniteSets, TLC

VARIABLES a, b, diff, total, stdout, exitCode, pc

vars == <<a, b, diff, total, stdout, exitCode, pc>>

----------------------------------------------------------------------------
(* Types and constants                                                     *)

\* <stdint.h>: the largest uint8_t.
UINT8_MAX == 255

\* The operands main() is compiled with (line 6).
InitA == 200
InitB == 100

UInt8 == 0 .. UINT8_MAX

None == <<>>
Some(v) == <<v>>

\* Conversion of an int to uint8_t: reduction modulo 2^8 (line 10, the
\* initialiser of a uint8_t from an int expression).
ToUint8(x) == x % (UINT8_MAX + 1)

\* Mutant: the difference with its operands swapped.
DifferenceSwapped(x) == x - UINT8_MAX

\* UINT8_MAX - a (line 7).  Both operands are promoted to int, so the
\* subtraction is an int subtraction, not an 8-bit one; its operands lie in
\* 0..255, far inside every conforming int, so it is the exact difference.
Difference(x) == UINT8_MAX - x

\* Mutant: the overflow test made after the addition, on the 8-bit sum.
BoundCheckAfterAdd(x, y) == UINT8_MAX < ToUint8(x + y)

\* Mutant: the comparison made non-strict.
BoundCheckNonStrict(x, y) == Difference(x) <= y

\* The condition of the if (line 7): UINT8_MAX - a < b.
BoundCheck(x, y) == Difference(x) < y

\* a + b stored into a uint8_t (line 10): the int sum, converted.
Add8(x, y) == ToUint8(x + y)

----------------------------------------------------------------------------
(* printf                                                                  *)

Digits == <<"0", "1", "2", "3", "4", "5", "6", "7", "8", "9">>

\* The format's literal text (lines 8 and 11).
OverflowMsg == <<"O", "v", "e", "r", "f", "l", "o", "w", " ",
                 "d", "e", "t", "e", "c", "t", "e", "d", "!", "\n">>
SumPrefix == <<"S", "u", "m", ":", " ">>
Newline == <<"\n">>

\* Mutant: the digits produced least significant first.
RECURSIVE FormatUnsignedReversed(_)
FormatUnsignedReversed(n) ==
    IF n < 10 THEN <<Digits[n + 1]>>
    ELSE <<Digits[(n % 10) + 1]>> \o FormatUnsignedReversed(n \div 10)

\* The %u conversion (line 11): the decimal digits of n, most significant
\* first, no leading zeros, "0" for zero.
RECURSIVE FormatUnsigned(_)
FormatUnsigned(n) ==
    IF n < 10 THEN <<Digits[n + 1]>>
    ELSE FormatUnsigned(n \div 10) \o <<Digits[(n % 10) + 1]>>

----------------------------------------------------------------------------
(* The program                                                             *)

\* The state after line 6: a and b initialised, nothing else in scope,
\* nothing written.
Init ==
    /\ a \in UInt8
    /\ b \in UInt8
    /\ diff = None
    /\ total = None
    /\ stdout = <<>>
    /\ exitCode = None
    /\ pc = "check"

\* Line 7: if (UINT8_MAX - a < b).
Check ==
    /\ pc = "check"
    /\ diff' = Some(Difference(a))
    /\ pc' = IF BoundCheck(a, b) THEN "print_overflow" ELSE "add"
    /\ UNCHANGED <<a, b, total, stdout, exitCode>>

\* Mutant: the else dropped, so the overflow branch falls into the addition.
PrintOverflowNoElse ==
    /\ pc = "print_overflow"
    /\ stdout' = stdout \o OverflowMsg
    /\ pc' = "add"
    /\ UNCHANGED <<a, b, diff, total, exitCode>>

\* Line 8: printf("Overflow detected!\n").
PrintOverflow ==
    /\ pc = "print_overflow"
    /\ stdout' = stdout \o OverflowMsg
    /\ pc' = "ret"
    /\ UNCHANGED <<a, b, diff, total, exitCode>>

\* Mutant: the sum accumulated into a (a += b) before it is copied.
AddInPlace ==
    /\ pc = "add"
    /\ a' = Add8(a, b)
    /\ total' = Some(a')
    /\ pc' = "print_sum"
    /\ UNCHANGED <<b, diff, stdout, exitCode>>

\* Line 10: uint8_t total = a + b.
Add ==
    /\ pc = "add"
    /\ total' = Some(Add8(a, b))
    /\ pc' = "print_sum"
    /\ UNCHANGED <<a, b, diff, stdout, exitCode>>

\* Line 11: printf("Sum: %u\n", total).
PrintSum ==
    /\ pc = "print_sum"
    /\ stdout' = stdout \o SumPrefix \o FormatUnsigned(total[1]) \o Newline
    /\ pc' = "ret"
    /\ UNCHANGED <<a, b, diff, total, exitCode>>

\* Mutant: a failure status returned when no sum was computed.
ReturnStatus ==
    /\ pc = "ret"
    /\ exitCode' = Some(IF total = None THEN 1 ELSE 0)
    /\ pc' = "done"
    /\ UNCHANGED <<a, b, diff, total, stdout>>

\* Line 13: return 0.
Return ==
    /\ pc = "ret"
    /\ exitCode' = Some(0)
    /\ pc' = "done"
    /\ UNCHANGED <<a, b, diff, total, stdout>>

Next ==
    \/ Check
    \/ PrintOverflow
    \/ Add
    \/ PrintSum
    \/ Return

Spec == Init /\ [][Next]_vars

\* main() is a single thread with no blocking operation: whenever a
\* statement is enabled it is eventually executed.
FairSpec == Spec /\ WF_vars(Next)

----------------------------------------------------------------------------
(* Reading standard output back                                            *)

\* The lines of a text: the runs of characters between newlines; text after
\* the last newline counts as a (not yet terminated) line.
RECURSIVE LinesOf(_)
LinesOf(s) ==
    IF s = <<>> THEN <<>>
    ELSE LET i == CHOOSE k \in 1 .. Len(s) + 1 :
                      /\ (k = Len(s) + 1 \/ s[k] = "\n")
                      /\ \A j \in 1 .. k - 1 : s[j] # "\n"
         IN  IF i > Len(s) THEN <<s>>
             ELSE <<SubSeq(s, 1, i - 1)>> \o LinesOf(SubSeq(s, i + 1, Len(s)))

OutLines == LinesOf(stdout)

\* Every line written so far is newline-terminated.
Terminated == stdout = <<>> \/ stdout[Len(stdout)] = "\n"

OverflowLine == <<"O", "v", "e", "r", "f", "l", "o", "w", " ",
                  "d", "e", "t", "e", "c", "t", "e", "d", "!">>

IsSumLine(l) == Len(l) >= 5 /\ SubSeq(l, 1, 5) = <<"S", "u", "m", ":", " ">>

DigitValue(c) ==
    CASE c = "0" -> 0 [] c = "1" -> 1 [] c = "2" -> 2 [] c = "3" -> 3
      [] c = "4" -> 4 [] c = "5" -> 5 [] c = "6" -> 6 [] c = "7" -> 7
      [] c = "8" -> 8 [] c = "9" -> 9

\* A decimal numeral: digits only, at least one, no leading zero.
IsDecimal(s) ==
    /\ Len(s) >= 1
    /\ \A i \in 1 .. Len(s) :
           s[i] \in {"0", "1", "2", "3", "4", "5", "6", "7", "8", "9"}
    /\ Len(s) > 1 => s[1] # "0"

RECURSIVE DecimalValue(_)
DecimalValue(s) ==
    IF s = <<>> THEN 0
    ELSE 10 * DecimalValue(SubSeq(s, 1, Len(s) - 1)) + DigitValue(s[Len(s)])

\* l is the line "Sum: <n>" with <n> the decimal numeral of n.
IsSumOf(l, n) ==
    /\ IsSumLine(l)
    /\ IsDecimal(SubSeq(l, 6, Len(l)))
    /\ DecimalValue(SubSeq(l, 6, Len(l))) = n

NoSumLine == \A i \in 1 .. Len(OutLines) : ~IsSumLine(OutLines[i])
NoOverflowLine == \A i \in 1 .. Len(OutLines) : OutLines[i] # OverflowLine

\* The program is past its if statement: whichever branch ran has printed.
Printed == pc \in {"ret", "done"}

----------------------------------------------------------------------------
(* Properties                                                              *)

\* C1: for every a, b in 0..255 with 255 - a < b, the run prints the line
\* "Overflow detected!" (it is on standard output once the if statement is
\* left) and no "Sum: " line is on standard output in any state of the run.
C1_OverflowPrinted ==
    (255 - a < b) =>
        /\ NoSumLine
        /\ Printed => (OutLines = <<OverflowLine>> /\ Terminated)

C1_Witness == 255 - a < b /\ pc = "done" /\ OutLines = <<OverflowLine>>

\* C2: for every a, b in 0..255 with NOT (255 - a < b), the run prints
\* "Sum: " followed by the decimal numeral of the mathematical sum a + b,
\* and "Overflow detected!" is on standard output in no state of the run.
C2_SumPrinted ==
    ~(255 - a < b) =>
        /\ NoOverflowLine
        /\ Printed =>
              /\ Len(OutLines) = 1
              /\ IsSumOf(OutLines[1], a + b)
              /\ Terminated

C2_Witness ==
    /\ ~(255 - a < b)
    /\ pc = "done"
    /\ a + b >= 100
    /\ Len(OutLines) = 1
    /\ IsSumOf(OutLines[1], a + b)

\* C3: the bound check is exact: the overflow branch is entered, and
\* overflow is reported, for exactly the pairs a, b whose mathematical sum
\* exceeds 255.
C3_CheckExact ==
    /\ pc = "print_overflow" => a + b > 255
    /\ pc \in {"add", "print_sum"} => a + b <= 255
    /\ Printed => ((OverflowLine \in {OutLines[i] : i \in 1 .. Len(OutLines)})
                      <=> a + b > 255)

C3_Witness == pc = "print_overflow" /\ a + b = 256

\* C4: on the else branch the 8-bit sum is not a wrapped one: whenever the
\* addition is about to run its operands sum to at most 255, and the value
\* stored in total equals the mathematical sum a + b.
C4_NoWrap ==
    /\ pc = "add" => (a + b) % 256 = a + b
    /\ total # None => total[1] = a + b

C4_Witness == total # None /\ total[1] = a + b /\ a + b = 255 /\ a > 0 /\ b > 0

\* C5: every run writes exactly one line: never more than one line is on
\* standard output, and at termination it holds one newline-terminated line
\* that is either "Overflow detected!" or a "Sum: <value>" line.
C5_ExactlyOneLine ==
    /\ Len(OutLines) <= 1
    /\ pc = "done" =>
          /\ Len(OutLines) = 1
          /\ Terminated
          /\ \/ OutLines[1] = OverflowLine
             \/ IsSumLine(OutLines[1]) /\ IsDecimal(SubSeq(OutLines[1], 6, Len(OutLines[1])))

C5_Witness == pc = "done" /\ Len(OutLines) = 1 /\ IsSumLine(OutLines[1])

\* C6: every run eventually terminates, and a terminated run has exit code
\* 0 whichever branch it took.
C6_TerminatesWithZero ==
    /\ <>(pc = "done")
    /\ [](pc = "done" => exitCode = <<0>>)

C6_Witness == pc = "done" /\ exitCode = <<0>> /\ total = None

\* C7: with the operands of the source, a = 200 and b = 100, the run takes
\* the overflow branch: no sum is ever computed or printed, and its only
\* output line is "Overflow detected!".
C7_SourceOperandsOverflow ==
    (a = InitA /\ b = InitB) =>
        /\ total = None
        /\ pc \notin {"add", "print_sum"}
        /\ NoSumLine
        /\ Printed => (OutLines = <<OverflowLine>> /\ Terminated)

C7_Witness ==
    a = InitA /\ b = InitB /\ pc = "done" /\ OutLines = <<OverflowLine>>

\* C8: the boundary: operands with a + b = 255 give the output "Sum: 255"
\* and no overflow report; operands with a + b = 256 give "Overflow
\* detected!".
C8_Boundary ==
    Printed =>
        /\ a + b = 255 =>
              OutLines = << <<"S", "u", "m", ":", " ", "2", "5", "5">> >>
        /\ a + b = 256 => OutLines = <<OverflowLine>>

C8_Witness ==
    /\ pc = "done"
    /\ a = 0
    /\ b = 255
    /\ OutLines = << <<"S", "u", "m", ":", " ", "2", "5", "5">> >>

\* C9: no step changes a or b; total is assigned only by the addition of
\* the else branch, after the bound check has been evaluated and found
\* false; and no step of the overflow branch assigns total.
C9_Frame ==
    [][ /\ a' = a
        /\ b' = b
        /\ total' # total =>
              /\ pc = "add"
              /\ total = None
              /\ diff # None
              /\ ~(diff[1] < b)
        /\ (pc' = "print_overflow" \/ ~NoOverflowLine') => total' = None
      ]_vars

C9_Witness == pc = "done" /\ total # None /\ diff # None /\ a > 0 /\ b > 0

\* C10: the bound check does not wrap or go negative: the computed
\* difference is the mathematical 255 - a and lies in 0..255, and total,
\* once assigned, lies in 0..255.
C10_ValuesInRange ==
    /\ diff # None => (diff[1] \in 0 .. 255 /\ diff[1] = 255 - a)
    /\ total # None => total[1] \in 0 .. 255

C10_Witness == diff = <<0>> /\ a = 255 /\ total = <<255>>

====
